---- MODULE Spec2Model ----
(***************************************************************************)
(* Model of cdes_fs/models.py: the dosage calculation of Recipe and        *)
(* DosageInfo, the dose calculation of CannabisIngredient, the pairing     *)
(* suggestions of TerpeneProfile and the construction of the dataclasses   *)
(* that carry enumerated fields.                                           *)
(*                                                                         *)
(* The numbers of the module are decimal.Decimal values (models.py:6),     *)
(* computed under Python's default decimal context: 28 significant         *)
(* digits, ROUND_HALF_EVEN.  A 28-digit coefficient does not fit a TLC     *)
(* integer, so a coefficient is kept as Python keeps it: the string of its *)
(* digits, most significant first.  A Decimal is [int, exp] and stands for *)
(* int * 10^exp.  The data model keeps potencies, quantities and servings  *)
(* non-negative, so the sign field is left out and every recipe of the     *)
(* model has servings >= 0.                                                *)
(***************************************************************************)
EXTENDS Integers, Sequences, FiniteSets, TLC

\* decimal.getcontext().prec of the decimal module imported at models.py:6
Prec == 28

\* ------------------------------------------------------------------------
\* Coefficients: non-negative Python ints as digit sequences
\* ------------------------------------------------------------------------

Max(x, y) == IF x >= y THEN x ELSE y

Min(x, y) == IF x <= y THEN x ELSE y

Zeros(k) == [i \in 1..k |-> 0]

RECURSIVE StripLeading(_)
StripLeading(s) == IF Len(s) > 1 /\ s[1] = 0 THEN StripLeading(Tail(s)) ELSE s

RECURSIVE NatDigits(_)
NatDigits(n) == IF n < 10 THEN <<n>> ELSE Append(NatDigits(n \div 10), n % 10)

RECURSIVE DigitsNat(_)
DigitsNat(s) ==
    IF Len(s) = 0 THEN 0
    ELSE DigitsNat(SubSeq(s, 1, Len(s) - 1)) * 10 + s[Len(s)]

IsZero(s) == \A i \in 1..Len(s) : s[i] = 0

PadLeft(s, n) == Zeros(n - Len(s)) \o s

RECURSIVE AddCarry(_, _, _, _, _)
AddCarry(a, b, i, c, acc) ==
    IF i = 0 THEN (IF c = 0 THEN acc ELSE <<c>> \o acc)
    ELSE AddCarry(a, b, i - 1, (a[i] + b[i] + c) \div 10,
                  <<(a[i] + b[i] + c) % 10>> \o acc)

IntAdd(a, b) ==
    StripLeading(AddCarry(PadLeft(a, Max(Len(a), Len(b))),
                          PadLeft(b, Max(Len(a), Len(b))),
                          Max(Len(a), Len(b)), 0, <<>>))

RECURSIVE MulCarry(_, _, _, _, _)
MulCarry(a, d, i, c, acc) ==
    IF i = 0 THEN (IF c = 0 THEN acc ELSE NatDigits(c) \o acc)
    ELSE MulCarry(a, d, i - 1, (a[i] * d + c) \div 10,
                  <<(a[i] * d + c) % 10>> \o acc)

IntMulDigit(a, d) == StripLeading(MulCarry(a, d, Len(a), 0, <<>>))

RECURSIVE IntMulFrom(_, _, _, _)
IntMulFrom(a, b, j, acc) ==
    IF j > Len(b) THEN acc
    ELSE IntMulFrom(a, b, j + 1, IntAdd(acc \o <<0>>, IntMulDigit(a, b[j])))

IntMul(a, b) == StripLeading(IntMulFrom(a, b, 1, <<0>>))

RECURSIVE LexCmp(_, _, _)
LexCmp(a, b, i) ==
    IF i > Len(a) THEN 0
    ELSE IF a[i] < b[i] THEN -1
    ELSE IF a[i] > b[i] THEN 1
    ELSE LexCmp(a, b, i + 1)

IntCmp(a, b) ==
    IF Len(StripLeading(a)) < Len(StripLeading(b)) THEN -1
    ELSE IF Len(StripLeading(a)) > Len(StripLeading(b)) THEN 1
    ELSE LexCmp(StripLeading(a), StripLeading(b), 1)

\* divmod(a, n) for a divisor small enough to be a machine integer
RECURSIVE DivStep(_, _, _, _, _)
DivStep(a, n, i, q, r) ==
    IF i > Len(a) THEN [q |-> StripLeading(q), r |-> r]
    ELSE DivStep(a, n, i + 1, Append(q, (r * 10 + a[i]) \div n),
                 (r * 10 + a[i]) % n)

IntDivMod(a, n) == DivStep(a, n, 1, <<>>, 0)

\* ------------------------------------------------------------------------
\* decimal.Decimal under the default context
\* ------------------------------------------------------------------------

\* Decimal("...") of a literal: its digits and its exponent
Decimal(digits, e) == [int |-> digits, exp |-> e]

\* Decimal(n) of a non-negative int, as the operators convert an int operand
DecimalOfInt(n) == [int |-> NatDigits(n), exp |-> 0]

\* an exception raised instead of a value
Raise(name) == [exception |-> name]

IsRaised(x) == "exception" \in DOMAIN x

\* Decimal._fix: round to Prec significant digits, ROUND_HALF_EVEN
\* (the exponent limits Emin/Emax = -/+999999 are out of reach here)
Fix(d) ==
    IF Len(d.int) <= Prec THEN d
    ELSE LET drop == Len(d.int) - Prec
             kept == SubSeq(d.int, 1, Prec)
             c    == LexCmp(SubSeq(d.int, Prec + 1, Len(d.int)),
                            <<5>> \o Zeros(drop - 1), 1)
             r    == IF c = 1 \/ (c = 0 /\ kept[Prec] % 2 = 1)
                     THEN IntAdd(kept, <<1>>) ELSE kept
         IN  IF Len(r) > Prec
             THEN [int |-> SubSeq(r, 1, Prec), exp |-> d.exp + drop + 1]
             ELSE [int |-> r, exp |-> d.exp + drop]

\* Decimal._rescale to a lower or equal exponent: pad with zeros
Rescale(d, e) == [int |-> StripLeading(d.int \o Zeros(d.exp - e)), exp |-> e]

\* Decimal.__add__ (operands whose exponents differ by less than Prec)
DecAdd(a, b) ==
    LET e == Min(a.exp, b.exp)
    IN  IF IsZero(a.int) /\ IsZero(b.int) THEN Fix([int |-> <<0>>, exp |-> e])
        ELSE IF IsZero(a.int) THEN Fix(Rescale(b, Max(e, b.exp - Prec - 1)))
        ELSE IF IsZero(b.int) THEN Fix(Rescale(a, Max(e, a.exp - Prec - 1)))
        ELSE Fix([int |-> IntAdd(Rescale(a, e).int, Rescale(b, e).int),
                  exp |-> e])

\* Decimal.__mul__
DecMul(a, b) ==
    IF IsZero(a.int) \/ IsZero(b.int)
    THEN Fix([int |-> <<0>>, exp |-> a.exp + b.exp])
    ELSE Fix([int |-> IntMul(a.int, b.int), exp |-> a.exp + b.exp])

\* the loop of __truediv__ that brings an exact quotient to its ideal exponent
RECURSIVE ToIdealExp(_, _, _)
ToIdealExp(q, e, ideal) ==
    IF e < ideal /\ q[Len(q)] = 0 /\ Len(q) > 1
    THEN ToIdealExp(SubSeq(q, 1, Len(q) - 1), e + 1, ideal)
    ELSE [int |-> q, exp |-> e]

\* the divmod of __truediv__: coefficient and remainder at Prec + 1 digits
DivCoeff(a, b) ==
    LET shift == Len(b.int) - Len(a.int) + Prec + 1
    IN  IF shift >= 0
        THEN IntDivMod(a.int \o Zeros(shift), DigitsNat(b.int))
        ELSE IntDivMod(a.int, DigitsNat(b.int \o Zeros(-shift)))

\* Decimal.__truediv__
DecDiv(a, b) ==
    IF IsZero(b.int)
    THEN (IF IsZero(a.int) THEN Raise("InvalidOperation")
                           ELSE Raise("DivisionByZero"))
    ELSE IF IsZero(a.int) THEN Fix([int |-> <<0>>, exp |-> a.exp - b.exp])
    ELSE LET shift == Len(b.int) - Len(a.int) + Prec + 1
             e     == a.exp - b.exp - shift
             dm    == DivCoeff(a, b)
         IN  IF dm.r # 0
             THEN Fix([int |-> IF dm.q[Len(dm.q)] % 5 = 0
                               THEN IntAdd(dm.q, <<1>>) ELSE dm.q,
                       exp |-> e])
             ELSE Fix(ToIdealExp(dm.q, e, a.exp - b.exp))

\* Decimal._cmp: -1, 0 or 1 by numerical value
DecCmp(a, b) ==
    IntCmp(Rescale(a, Min(a.exp, b.exp)).int, Rescale(b, Min(a.exp, b.exp)).int)

DecGt(a, b) == DecCmp(a, b) = 1

DecEq(a, b) == DecCmp(a, b) = 0

\* ------------------------------------------------------------------------
\* Bounds and inputs
\* ------------------------------------------------------------------------

\* longest cannabis_ingredients list a recipe is given
MaxIngredients == 2

\* largest servings count a recipe is given
MaxServings == 3

\* object identities (addresses) available to DosageInfo objects
MaxObjects == 3

ObjIds == 0..(MaxObjects - 1)

\* two CannabisIngredient values: potency fields of models.py:170-171
IngredientA ==
    [name |-> "A", thc_mg_per_gram |-> Decimal(<<1, 0>>, 0),
     cbd_mg_per_gram |-> Decimal(<<0>>, -2)]

IngredientB ==
    [name |-> "B", thc_mg_per_gram |-> Decimal(<<5>>, 0),
     cbd_mg_per_gram |-> Decimal(<<2, 5>>, -1)]

Ingredients == {IngredientA, IngredientB}

\* amounts in grams: 0, 1, 2 and 0.5
Amounts ==
    {Decimal(<<0>>, 0), Decimal(<<1>>, 0), Decimal(<<2>>, 0), Decimal(<<5>>, -1)}

Pairs == {<<g, a>> : g \in Ingredients, a \in Amounts}

PairLists == UNION {[1..n -> Pairs] : n \in 0..MaxIngredients}

ServingsValues == 0..MaxServings

\* ------------------------------------------------------------------------
\* DosageInfo, CannabisIngredient and Recipe
\* ------------------------------------------------------------------------

\* DosageInfo() with every field defaulted, as object oid
DosageInfoDefault(oid) ==
    [id |-> oid,
     thc_mg_per_serving |-> Decimal(<<0>>, -2),
     cbd_mg_per_serving |-> Decimal(<<0>>, -2),
     total_thc_mg |-> Decimal(<<0>>, -2),
     total_cbd_mg |-> Decimal(<<0>>, -2),
     servings |-> 1,
     onset_time_minutes |-> 60,
     duration_hours |-> 6,
     recommended_for |-> "",
     high_dose_warning |-> FALSE]

\* Recipe(cannabis_ingredients=pairs, servings=n): dosage_info comes from its
\* default factory, a DosageInfo() of its own
RecipeOf(pairs, n) ==
    [category |-> "dessert", cannabis_ingredients |-> pairs, servings |-> n,
     dosage_info |-> DosageInfoDefault(0)]

\* no call made yet
NoCall == [called |-> FALSE]

IsDosageInfo(x) == "total_thc_mg" \in DOMAIN x

\* a plausible slip: the THC dose read from the CBD potency
calculate_thc_dose_from_cbd(self, grams) == DecMul(self.cbd_mg_per_gram, grams)

calculate_thc_dose(self, grams) == DecMul(self.thc_mg_per_gram, grams)

calculate_cbd_dose(self, grams) == DecMul(self.cbd_mg_per_gram, grams)

\* the loop of calculate_total_dosage, from pair i on
RECURSIVE SumDoses(_, _, _)
SumDoses(pairs, i, acc) ==
    IF i > Len(pairs) THEN acc
    ELSE SumDoses(pairs, i + 1,
           [thc |-> DecAdd(acc.thc, calculate_thc_dose(pairs[i][1], pairs[i][2])),
            cbd |-> DecAdd(acc.cbd, calculate_cbd_dose(pairs[i][1], pairs[i][2]))])

TotalDoses(self) ==
    SumDoses(self.cannabis_ingredients, 1,
             [thc |-> Decimal(<<0>>, -2), cbd |-> Decimal(<<0>>, -2)])

\* a plausible slip: the division without its zero-servings guard
PerServingUnguarded(total, servings) == DecDiv(total, DecimalOfInt(servings))

\* the integer part of a Decimal with exponent <= 0, for the slip below
IntegerPart(d) ==
    IF Len(d.int) + d.exp <= 0 THEN <<0>> ELSE SubSeq(d.int, 1, Len(d.int) + d.exp)

\* a plausible slip: floor division (//) in place of true division (/)
PerServingFloorDiv(total, servings) ==
    IF servings # 0
    THEN [int |-> IntDivMod(IntegerPart(total), servings).q, exp |-> 0]
    ELSE Decimal(<<0>>, 0)

\* total / self.servings if self.servings else Decimal("0")
PerServing(total, servings) ==
    IF servings # 0 THEN DecDiv(total, DecimalOfInt(servings))
    ELSE Decimal(<<0>>, 0)

\* a plausible slip: the threshold taken inclusively
HighDoseInclusive(total, servings) ==
    IF servings # 0
    THEN LET q == DecDiv(total, DecimalOfInt(servings))
         IN  IF IsRaised(q) THEN q ELSE DecCmp(q, Decimal(<<1, 0>>, 0)) >= 0
    ELSE FALSE

\* (total_thc / self.servings) > Decimal("10") if self.servings else False
HighDose(total, servings) ==
    IF servings # 0
    THEN LET q == DecDiv(total, DecimalOfInt(servings))
         IN  IF IsRaised(q) THEN q ELSE DecGt(q, Decimal(<<1, 0>>, 0))
    ELSE FALSE

\* the DosageInfo(...) call: its arguments are evaluated in order, and the first
\* one that raises ends the call with that exception
NewDosageInfo(oid, thc_ps, cbd_ps, total, servings, warning) ==
    IF IsRaised(thc_ps) THEN thc_ps
    ELSE IF IsRaised(cbd_ps) THEN cbd_ps
    ELSE IF warning \notin BOOLEAN THEN warning
    ELSE [DosageInfoDefault(oid) EXCEPT
            !.thc_mg_per_serving = thc_ps,
            !.cbd_mg_per_serving = cbd_ps,
            !.total_thc_mg = total.thc,
            !.total_cbd_mg = total.cbd,
            !.servings = servings,
            !.high_dose_warning = warning]

\* Recipe.calculate_total_dosage, its result allocated as object oid
calculate_total_dosage(self, oid) ==
    NewDosageInfo(oid,
                  PerServing(TotalDoses(self).thc, self.servings),
                  PerServing(TotalDoses(self).cbd, self.servings),
                  TotalDoses(self),
                  self.servings,
                  HighDose(TotalDoses(self).thc, self.servings))

\* a plausible slip: the THC figure divided from the CBD total
calculate_per_serving_swapped(self) ==
    [thc_mg |-> IF self.servings # 0
                THEN DecDiv(self.total_cbd_mg, DecimalOfInt(self.servings))
                ELSE Decimal(<<0>>, 0),
     cbd_mg |-> IF self.servings # 0
                THEN DecDiv(self.total_cbd_mg, DecimalOfInt(self.servings))
                ELSE Decimal(<<0>>, 0)]

\* DosageInfo.calculate_per_serving
calculate_per_serving(self) ==
    [thc_mg |-> IF self.servings # 0
                THEN DecDiv(self.total_thc_mg, DecimalOfInt(self.servings))
                ELSE Decimal(<<0>>, 0),
     cbd_mg |-> IF self.servings # 0
                THEN DecDiv(self.total_cbd_mg, DecimalOfInt(self.servings))
                ELSE Decimal(<<0>>, 0)]

\* ------------------------------------------------------------------------
\* TerpeneProfile
\* ------------------------------------------------------------------------

TerpeneFields ==
    {"myrcene", "limonene", "caryophyllene", "pinene", "linalool",
     "humulene", "terpinolene", "ocimene"}

\* the concentrations a field is given: its default 0.00, the threshold of its
\* rule and a value a tenth above it; 0.00 and 0.6 for a field with no rule
ConcChoices(f) ==
    IF f \in {"limonene", "myrcene"}
    THEN {Decimal(<<0>>, -2), Decimal(<<5>>, -1), Decimal(<<6>>, -1)}
    ELSE IF f \in {"caryophyllene", "pinene"}
    THEN {Decimal(<<0>>, -2), Decimal(<<3>>, -1), Decimal(<<4>>, -1)}
    ELSE IF f = "linalool"
    THEN {Decimal(<<0>>, -2), Decimal(<<2>>, -1), Decimal(<<3>>, -1)}
    ELSE {Decimal(<<0>>, -2), Decimal(<<6>>, -1)}

\* the stored pairs_well_with lists a profile is given
PairsWellWithValues == {<<>>, <<"chocolate">>}

\* TerpeneProfile(coa_reference) with every other field defaulted
TerpeneProfileDefault ==
    [myrcene |-> Decimal(<<0>>, -2), limonene |-> Decimal(<<0>>, -2),
     caryophyllene |-> Decimal(<<0>>, -2), pinene |-> Decimal(<<0>>, -2),
     linalool |-> Decimal(<<0>>, -2), humulene |-> Decimal(<<0>>, -2),
     terpinolene |-> Decimal(<<0>>, -2), ocimene |-> Decimal(<<0>>, -2),
     pairs_well_with |-> <<>>]

\* the profiles the constructor is given within the bounds
Profiles ==
    [myrcene : ConcChoices("myrcene"), limonene : ConcChoices("limonene"),
     caryophyllene : ConcChoices("caryophyllene"), pinene : ConcChoices("pinene"),
     linalool : ConcChoices("linalool"), humulene : ConcChoices("humulene"),
     terpinolene : ConcChoices("terpinolene"), ocimene : ConcChoices("ocimene"),
     pairs_well_with : PairsWellWithValues]

\* a plausible slip: the thresholds taken inclusively
suggest_pairings_inclusive(self) ==
    (IF DecCmp(self.limonene, Decimal(<<5>>, -1)) >= 0
     THEN <<"citrus desserts", "seafood", "light salads">> ELSE <<>>)
    \o (IF DecCmp(self.myrcene, Decimal(<<5>>, -1)) >= 0
        THEN <<"mangoes", "tropical fruits", "herbal dishes">> ELSE <<>>)
    \o (IF DecCmp(self.caryophyllene, Decimal(<<3>>, -1)) >= 0
        THEN <<"black pepper", "spicy foods", "dark chocolate">> ELSE <<>>)
    \o (IF DecCmp(self.pinene, Decimal(<<3>>, -1)) >= 0
        THEN <<"rosemary", "pine nuts", "Mediterranean">> ELSE <<>>)
    \o (IF DecCmp(self.linalool, Decimal(<<2>>, -1)) >= 0
        THEN <<"lavender", "honey", "floral desserts">> ELSE <<>>)

\* TerpeneProfile.suggest_pairings
suggest_pairings(self) ==
    (IF DecGt(self.limonene, Decimal(<<5>>, -1))
     THEN <<"citrus desserts", "seafood", "light salads">> ELSE <<>>)
    \o (IF DecGt(self.myrcene, Decimal(<<5>>, -1))
        THEN <<"mangoes", "tropical fruits", "herbal dishes">> ELSE <<>>)
    \o (IF DecGt(self.caryophyllene, Decimal(<<3>>, -1))
        THEN <<"black pepper", "spicy foods", "dark chocolate">> ELSE <<>>)
    \o (IF DecGt(self.pinene, Decimal(<<3>>, -1))
        THEN <<"rosemary", "pine nuts", "Mediterranean">> ELSE <<>>)
    \o (IF DecGt(self.linalool, Decimal(<<2>>, -1))
        THEN <<"lavender", "honey", "floral desserts">> ELSE <<>>)

\* ------------------------------------------------------------------------
\* Enumerated vocabularies and the records that carry them
\* ------------------------------------------------------------------------

IngredientType ==
    {"flower", "concentrate", "distillate", "isolate", "tincture", "butter",
     "oil", "rso", "kief", "hash", "rosin", "sauce"}

IngredientForm == {"solid", "liquid", "powder", "paste", "crystal"}

RecipeCategory ==
    {"appetizer", "main_course", "dessert", "beverage", "snack", "sauce",
     "baked_good", "confection", "savory"}

ComplianceStatus == {"compliant", "pending_review", "non_compliant", "expired"}

\* a value of no vocabulary, as a caller may pass it
OutOfVocabulary == "brownie"

\* CannabisIngredient(ingredient_type=t, form=f, thc_mg_per_gram=p): the
\* generated __init__ stores its arguments as they are
NewCannabisIngredient(t, f, p) ==
    [class |-> "CannabisIngredient", ingredient_type |-> t, form |-> f,
     thc_mg_per_gram |-> p, cbd_mg_per_gram |-> Decimal(<<0>>, -2)]

\* Recipe(category=c, servings=n)
NewRecipe(c, n) ==
    [class |-> "Recipe", category |-> c, cannabis_ingredients |-> <<>>,
     servings |-> n, dosage_info |-> DosageInfoDefault(0)]

\* FoodSafetyRecord(status=st)
NewFoodSafetyRecord(st) ==
    [class |-> "FoodSafetyRecord", venue_id |-> "", status |-> st]

\* ------------------------------------------------------------------------
\* State
\* ------------------------------------------------------------------------

VARIABLES
    recipe,        \* a Recipe
    returned,      \* what the last calculate_total_dosage call returned or raised
    per_serving,   \* the last calculate_per_serving call: its self and its result
    profile,       \* a TerpeneProfile
    pairings,      \* what the last suggest_pairings call returned
    constructed    \* the record the last constructor call built

vars == <<recipe, returned, per_serving, profile, pairings, constructed>>

\* ------------------------------------------------------------------------
\* Dosage calculation over the recipes within the bounds
\* ------------------------------------------------------------------------

\* the DosageInfo objects alive: the recipe's own and the one last returned
LiveIds ==
    {recipe.dosage_info.id} \cup (IF IsDosageInfo(returned) THEN {returned.id} ELSE {})

\* a plausible slip: the embedded snapshot updated in place and returned
CalculateTotalDosageInPlace ==
    /\ returned' = calculate_total_dosage(recipe, recipe.dosage_info.id)
    /\ recipe' = IF IsDosageInfo(returned')
                 THEN [recipe EXCEPT !.dosage_info = returned']
                 ELSE recipe
    /\ UNCHANGED <<per_serving, profile, pairings, constructed>>

\* a caller calls recipe.calculate_total_dosage()
CalculateTotalDosage ==
    /\ \E oid \in ObjIds \ LiveIds :
          returned' = calculate_total_dosage(recipe, oid)
    /\ UNCHANGED <<recipe, per_serving, profile, pairings, constructed>>

\* a caller calls calculate_per_serving() on the returned DosageInfo or on the
\* recipe's embedded one
CalculatePerServing ==
    /\ \E d \in {returned, recipe.dosage_info} :
          /\ IsDosageInfo(d)
          /\ per_serving' = [self |-> d, result |-> calculate_per_serving(d)]
    /\ UNCHANGED <<recipe, returned, profile, pairings, constructed>>

Init ==
    /\ recipe \in {RecipeOf(pairs, n) : pairs \in PairLists, n \in ServingsValues}
    /\ returned = NoCall
    /\ per_serving = NoCall
    /\ profile = TerpeneProfileDefault
    /\ pairings = NoCall
    /\ constructed = NoCall

Next ==
    \/ CalculateTotalDosage
    \/ CalculatePerServing

Spec == Init /\ [][Next]_vars

\* ------------------------------------------------------------------------
\* A recipe edited by its holder: the dataclass is not frozen, so servings and
\* the cannabis_ingredients list are assigned and edited in place
\* ------------------------------------------------------------------------

\* recipe.servings = n
SetServings ==
    /\ \E n \in ServingsValues : recipe' = [recipe EXCEPT !.servings = n]
    /\ UNCHANGED <<returned, per_serving, profile, pairings, constructed>>

\* recipe.cannabis_ingredients.append((ingredient, amount))
AppendIngredient ==
    /\ Len(recipe.cannabis_ingredients) < MaxIngredients
    /\ \E pr \in Pairs :
          recipe' = [recipe EXCEPT !.cannabis_ingredients = Append(@, pr)]
    /\ UNCHANGED <<returned, per_serving, profile, pairings, constructed>>

\* del recipe.cannabis_ingredients[i]
RemoveIngredient ==
    /\ \E i \in 1..Len(recipe.cannabis_ingredients) :
          recipe' = [recipe EXCEPT !.cannabis_ingredients =
                        SubSeq(@, 1, i - 1) \o SubSeq(@, i + 1, Len(@))]
    /\ UNCHANGED <<returned, per_serving, profile, pairings, constructed>>

\* recipe.cannabis_ingredients[i] = (ingredient, amount)
SetAmount ==
    /\ \E i \in 1..Len(recipe.cannabis_ingredients), a \in Amounts :
          recipe' = [recipe EXCEPT !.cannabis_ingredients[i] = <<@[1], a>>]
    /\ UNCHANGED <<returned, per_serving, profile, pairings, constructed>>

InitRecipe ==
    /\ recipe = RecipeOf(<<>>, 1)
    /\ returned = NoCall
    /\ per_serving = NoCall
    /\ profile = TerpeneProfileDefault
    /\ pairings = NoCall
    /\ constructed = NoCall

NextRecipe ==
    \/ SetServings
    \/ AppendIngredient
    \/ RemoveIngredient
    \/ SetAmount
    \/ CalculateTotalDosage

SpecRecipe == InitRecipe /\ [][NextRecipe]_vars

\* ------------------------------------------------------------------------
\* Pairing suggestions
\* ------------------------------------------------------------------------

\* a plausible slip: the suggestions cached in pairs_well_with and reused
SuggestPairingsMemoized ==
    /\ pairings' = [result |-> IF profile.pairs_well_with # <<>>
                               THEN profile.pairs_well_with
                               ELSE suggest_pairings(profile)]
    /\ profile' = [profile EXCEPT !.pairs_well_with = pairings'.result]
    /\ UNCHANGED <<recipe, returned, per_serving, constructed>>

\* a caller calls profile.suggest_pairings()
SuggestPairings ==
    /\ pairings' = [result |-> suggest_pairings(profile)]
    /\ UNCHANGED <<recipe, returned, per_serving, profile, constructed>>

\* profile.<terpene> = v
SetConcentration ==
    /\ \E f \in TerpeneFields : \E v \in ConcChoices(f) :
          profile' = [profile EXCEPT ![f] = v]
    /\ UNCHANGED <<recipe, returned, per_serving, pairings, constructed>>

\* profile.pairs_well_with = l
SetPairsWellWith ==
    /\ \E l \in PairsWellWithValues :
          profile' = [profile EXCEPT !.pairs_well_with = l]
    /\ UNCHANGED <<recipe, returned, per_serving, pairings, constructed>>

\* the pure function over the profiles within the bounds
InitPairing ==
    /\ recipe = RecipeOf(<<>>, 1)
    /\ returned = NoCall
    /\ per_serving = NoCall
    /\ profile \in Profiles
    /\ pairings = NoCall
    /\ constructed = NoCall

NextPairing == SuggestPairings

SpecPairing == InitPairing /\ [][NextPairing]_vars

\* a profile edited between calls
InitTerpene ==
    /\ recipe = RecipeOf(<<>>, 1)
    /\ returned = NoCall
    /\ per_serving = NoCall
    /\ profile = TerpeneProfileDefault
    /\ pairings = NoCall
    /\ constructed = NoCall

NextTerpene ==
    \/ SetConcentration
    \/ SetPairsWellWith
    \/ SuggestPairings

SpecTerpene == InitTerpene /\ [][NextTerpene]_vars

\* ------------------------------------------------------------------------
\* Construction of the records with enumerated fields
\* ------------------------------------------------------------------------

ConstructCannabisIngredient ==
    /\ \E t \in IngredientType \cup {OutOfVocabulary},
          f \in IngredientForm \cup {OutOfVocabulary},
          g \in Ingredients :
          constructed' = NewCannabisIngredient(t, f, g.thc_mg_per_gram)
    /\ UNCHANGED <<recipe, returned, per_serving, profile, pairings>>

ConstructRecipe ==
    /\ \E c \in RecipeCategory \cup {OutOfVocabulary}, n \in ServingsValues :
          constructed' = NewRecipe(c, n)
    /\ UNCHANGED <<recipe, returned, per_serving, profile, pairings>>

ConstructFoodSafetyRecord ==
    /\ \E st \in ComplianceStatus \cup {OutOfVocabulary} :
          constructed' = NewFoodSafetyRecord(st)
    /\ UNCHANGED <<recipe, returned, per_serving, profile, pairings>>

InitConstruct ==
    /\ recipe = RecipeOf(<<>>, 1)
    /\ returned = NoCall
    /\ per_serving = NoCall
    /\ profile = TerpeneProfileDefault
    /\ pairings = NoCall
    /\ constructed = NoCall

NextConstruct ==
    \/ ConstructCannabisIngredient
    \/ ConstructRecipe
    \/ ConstructFoodSafetyRecord

SpecConstruct == InitConstruct /\ [][NextConstruct]_vars

\* ------------------------------------------------------------------------
\* Reference arithmetic for the properties: whole ten-thousandths as integers
\* ------------------------------------------------------------------------

\* d in units of 10^-k, for a d with no digit below 10^-k
Units(d, k) == DigitsNat(Rescale(d, -k).int)

\* the sum over pairs i.. of potency * quantity, in ten-thousandths of a mg
RECURSIVE SumUnits(_, _, _)
SumUnits(pairs, i, field) ==
    IF i > Len(pairs) THEN 0
    ELSE Units(pairs[i][1][field], 2) * Units(pairs[i][2], 2)
         + SumUnits(pairs, i + 1, field)

\* pairs in the order the permutation f gives
Permuted(pairs, f) == [i \in 1..Len(pairs) |-> pairs[f[i]]]

RECURSIVE StripTrailing(_)
StripTrailing(s) ==
    IF Len(s) > 1 /\ s[Len(s)] = 0 THEN StripTrailing(SubSeq(s, 1, Len(s) - 1)) ELSE s

\* total / n is a decimal of at most Prec significant digits
QuotientRepresentable(total, n) ==
    \/ IsZero(total.int)
    \/ /\ DivCoeff(total, DecimalOfInt(n)).r = 0
       /\ Len(StripTrailing(DivCoeff(total, DecimalOfInt(n)).q)) <= Prec

Ten == Decimal(<<1, 0>>, 0)

\* ------------------------------------------------------------------------
\* Properties of the dosage calculation (specification Spec)
\* ------------------------------------------------------------------------

\* C1: the DosageInfo calculate_total_dosage returns has high_dose_warning true
\* exactly when servings > 0 and its thc_mg_per_serving is strictly above 10;
\* at exactly 10 the warning is false.
C1_HighDoseWarningIff ==
    IsDosageInfo(returned) =>
        /\ returned.high_dose_warning <=>
              (recipe.servings > 0 /\ DecGt(returned.thc_mg_per_serving, Ten))
        /\ DecEq(returned.thc_mg_per_serving, Ten) => ~returned.high_dose_warning

\* a recipe whose per-serving THC is exactly 10 mg was calculated, without warning
C1_Witness ==
    /\ IsDosageInfo(returned)
    /\ recipe.servings > 0
    /\ DecEq(returned.thc_mg_per_serving, Ten)
    /\ ~returned.high_dose_warning

\* C2: with servings == 0 calculate_total_dosage raises nothing and returns
\* per-serving values 0 and no warning, while the totals are the summed doses.
C2_ZeroServings ==
    (recipe.servings = 0 /\ returned # NoCall) =>
        /\ ~IsRaised(returned)
        /\ IsDosageInfo(returned)
        /\ DecEq(returned.thc_mg_per_serving, Decimal(<<0>>, 0))
        /\ DecEq(returned.cbd_mg_per_serving, Decimal(<<0>>, 0))
        /\ returned.high_dose_warning = FALSE
        /\ returned.total_thc_mg.exp >= -4
        /\ returned.total_cbd_mg.exp >= -4
        /\ Units(returned.total_thc_mg, 4)
              = SumUnits(recipe.cannabis_ingredients, 1, "thc_mg_per_gram")
        /\ Units(returned.total_cbd_mg, 4)
              = SumUnits(recipe.cannabis_ingredients, 1, "cbd_mg_per_gram")

\* a zero-servings recipe with THC and CBD in it was calculated
C2_Witness ==
    /\ recipe.servings = 0
    /\ IsDosageInfo(returned)
    /\ ~IsZero(returned.total_thc_mg.int)
    /\ ~IsZero(returned.total_cbd_mg.int)

\* C3 as stated: with servings > 0, thc_mg_per_serving * servings is exactly
\* total_thc_mg, whatever the total and the servings.
C3_ExactProduct ==
    (IsDosageInfo(returned) /\ recipe.servings > 0) =>
        DecEq(DecMul(returned.thc_mg_per_serving, DecimalOfInt(recipe.servings)),
              returned.total_thc_mg)

\* C3 amended: with servings > 0, thc_mg_per_serving * servings is exactly
\* total_thc_mg whenever total_thc_mg / servings is a decimal of at most 28
\* significant digits.
C3_ExactWhenRepresentable ==
    (/\ IsDosageInfo(returned)
     /\ recipe.servings > 0
     /\ QuotientRepresentable(returned.total_thc_mg, recipe.servings)) =>
        DecEq(DecMul(returned.thc_mg_per_serving, DecimalOfInt(recipe.servings)),
              returned.total_thc_mg)

\* a total was divided exactly among several servings, into a fraction of a mg
C3_Witness ==
    /\ IsDosageInfo(returned)
    /\ recipe.servings > 1
    /\ QuotientRepresentable(returned.total_thc_mg, recipe.servings)
    /\ Units(returned.total_thc_mg, 4) % (recipe.servings * 10000) # 0

C6_RecipeUnchanged ==
    [][returned' # returned =>
          /\ recipe' = recipe
          /\ IsDosageInfo(returned')
          /\ returned'.id # recipe'.dosage_info.id
          /\ IsDosageInfo(returned) => returned'.id # returned.id]_vars

\* a second call returned a DosageInfo that differs from the embedded one
C6_Witness ==
    /\ IsDosageInfo(returned)
    /\ returned.id # recipe.dosage_info.id
    /\ recipe.dosage_info = DosageInfoDefault(0)
    /\ ~DecEq(returned.total_thc_mg, recipe.dosage_info.total_thc_mg)
    /\ returned.servings # recipe.dosage_info.servings

\* C7: calculate_per_serving on the DosageInfo that calculate_total_dosage
\* returned gives thc_mg and cbd_mg equal to that DosageInfo's per-serving
\* fields, with servings zero or not.
C7_PerServingConsistent ==
    ("self" \in DOMAIN per_serving /\ per_serving.self = returned) =>
        /\ ~IsRaised(per_serving.result.thc_mg)
        /\ ~IsRaised(per_serving.result.cbd_mg)
        /\ DecEq(per_serving.result.thc_mg, returned.thc_mg_per_serving)
        /\ DecEq(per_serving.result.cbd_mg, returned.cbd_mg_per_serving)
        /\ returned.servings = 0 =>
              /\ IsZero(per_serving.result.thc_mg.int)
              /\ IsZero(per_serving.result.cbd_mg.int)

\* calculate_per_serving ran on a returned DosageInfo whose quotient was rounded
C7_Witness ==
    /\ "self" \in DOMAIN per_serving
    /\ per_serving.self = returned
    /\ returned.servings > 1
    /\ ~QuotientRepresentable(returned.total_thc_mg, returned.servings)
    /\ ~DecEq(returned.thc_mg_per_serving, returned.cbd_mg_per_serving)

\* ------------------------------------------------------------------------
\* Properties of the pairing suggestions (SpecPairing, SpecTerpene)
\* ------------------------------------------------------------------------

\* the rules in their order: terpene, threshold in hundredths of a percent,
\* suggestions
PairingRules ==
    << [terpene |-> "limonene", threshold |-> 50,
        suggestions |-> <<"citrus desserts", "seafood", "light salads">>],
       [terpene |-> "myrcene", threshold |-> 50,
        suggestions |-> <<"mangoes", "tropical fruits", "herbal dishes">>],
       [terpene |-> "caryophyllene", threshold |-> 30,
        suggestions |-> <<"black pepper", "spicy foods", "dark chocolate">>],
       [terpene |-> "pinene", threshold |-> 30,
        suggestions |-> <<"rosemary", "pine nuts", "Mediterranean">>],
       [terpene |-> "linalool", threshold |-> 20,
        suggestions |-> <<"lavender", "honey", "floral desserts">>] >>

\* rule r fires on profile p
Fires(p, r) == Units(p[PairingRules[r].terpene], 2) > PairingRules[r].threshold

\* the suggestions of the rules r.. that fire on p, concatenated in rule order
RECURSIVE RuleConcat(_, _)
RuleConcat(p, r) ==
    IF r > Len(PairingRules) THEN <<>>
    ELSE (IF Fires(p, r) THEN PairingRules[r].suggestions ELSE <<>>)
         \o RuleConcat(p, r + 1)

\* C5: suggest_pairings returns exactly the concatenation, in the rule order
\* limonene, myrcene, caryophyllene, pinene, linalool, of the three suggestions
\* of each rule whose threshold is strictly exceeded; a concentration at its
\* threshold adds nothing, humulene, terpinolene and ocimene add nothing, and
\* the result is empty when no rule fires.
C5_PairingsByRule ==
    "result" \in DOMAIN pairings =>
        /\ pairings.result = RuleConcat(profile, 1)
        /\ Len(pairings.result)
              = 3 * Cardinality({r \in 1..Len(PairingRules) : Fires(profile, r)})
        /\ (\A r \in 1..Len(PairingRules) : ~Fires(profile, r)) =>
              pairings.result = <<>>

\* limonene above its threshold, myrcene exactly at its threshold and humulene
\* high: only the limonene suggestions were returned
C5_Witness ==
    /\ "result" \in DOMAIN pairings
    /\ profile.limonene = Decimal(<<6>>, -1)
    /\ profile.myrcene = Decimal(<<5>>, -1)
    /\ profile.humulene = Decimal(<<6>>, -1)
    /\ profile.linalool = Decimal(<<2>>, -1)
    /\ pairings.result = <<"citrus desserts", "seafood", "light salads">>

C8_EnumFieldsInVocabulary ==
    "class" \in DOMAIN constructed =>
        /\ constructed.class = "CannabisIngredient" =>
              /\ constructed.ingredient_type \in IngredientType
              /\ constructed.form \in IngredientForm
        /\ constructed.class = "Recipe" => constructed.category \in RecipeCategory
        /\ constructed.class = "FoodSafetyRecord" =>
              constructed.status \in ComplianceStatus

\* C9: after any edits of cannabis_ingredients or servings, recipe.dosage_info
\* has the servings, totals, per-serving values and warning of the DosageInfo
\* that calculate_total_dosage returns for the recipe as it is now.
C9_SnapshotCurrent ==
    LET now == calculate_total_dosage(recipe, recipe.dosage_info.id)
    IN  /\ IsDosageInfo(now)
        /\ recipe.dosage_info.servings = now.servings
        /\ DecEq(recipe.dosage_info.total_thc_mg, now.total_thc_mg)
        /\ DecEq(recipe.dosage_info.total_cbd_mg, now.total_cbd_mg)
        /\ DecEq(recipe.dosage_info.thc_mg_per_serving, now.thc_mg_per_serving)
        /\ DecEq(recipe.dosage_info.cbd_mg_per_serving, now.cbd_mg_per_serving)
        /\ recipe.dosage_info.high_dose_warning = now.high_dose_warning
====
